---- MODULE Spec2Model ----
(***************************************************************************)
(* Model of the Ondsel Lens add-on.  The API client (src/APIClient.py):    *)
(* the connection state machine, the four transport verbs, the             *)
(* authentication gate, the domain operations built on them and the        *)
(* result-wrapping helper.  The workspace models (src/WorkSpace.py): the   *)
(* refresh that reconciles the server's model list with the local          *)
(* directory, and the deletion of an entry.  Every call is synchronous and *)
(* single-threaded, so every public call is one action; what the network   *)
(* answers to each request of the call is chosen by the environment.       *)
(* Spec is the client alone, SpecWS a workspace model with its client; in  *)
(* both the parent's set_ui_connectionStatus returns.  SpecObserver is the *)
(* client with a parent whose set_ui_connectionStatus may come to raise.   *)
(***************************************************************************)
EXTENDS Integers, Sequences, FiniteSets, TLC

VARIABLES status, email, password, access_token, user, parentHasApi,
          observerRaises, last, workspacetype, disk, server, files, wlast

\* The client, with the record of its last call
cvars == <<status, email, password, access_token, user, parentHasApi,
           observerRaises, last>>

\* The workspace model (src/WorkSpace.py), the local directory and the
\* server's model list it reconciles, with the record of its last call
wvars == <<workspacetype, disk, server, files, wlast>>

vars == <<status, email, password, access_token, user, parentHasApi,
          observerRaises, last, workspacetype, disk, server, files, wlast>>

----------------------------------------------------------------------------
(* Values *)

None == "None"
AccessTokens == {"tok"}
Users == {"user"}
Emails == {"e@x"}

LOGGED_OUT == "LOGGED_OUT"
CONNECTED == "CONNECTED"
DISCONNECTED == "DISCONNECTED"
ConnStatus == {LOGGED_OUT, CONNECTED, DISCONNECTED}

OK == 200
CREATED == 201
UNAUTHORIZED == 401
NOT_FOUND == 404

NoExc == "none"
APIClientException == "APIClientException"
APIClientAuthenticationException == "APIClientAuthenticationException"
APIClientConnectionError == "APIClientConnectionError"
APIClientRequestException == "APIClientRequestException"
APIClientLoggedOutException == "APIClientLoggedOutException"
APIClientOfflineException == "APIClientOfflineException"
APIClientNotFoundException == "APIClientNotFoundException"
APIClientTierException == "APIClientTierException"
KeyError == "KeyError"
JSONDecodeError == "JSONDecodeError"
AttributeError == "AttributeError"
TypeError == "TypeError"
RuntimeError == "RuntimeError"
BaseExc == "Exception"

\* The direct base class of every exception class the client can meet.
BaseOf(cls) ==
    CASE cls = APIClientException -> BaseExc
      [] cls \in {APIClientAuthenticationException, APIClientConnectionError,
                  APIClientRequestException, APIClientLoggedOutException,
                  APIClientOfflineException, APIClientNotFoundException,
                  APIClientTierException} -> APIClientException
      [] OTHER -> BaseExc

\* Python's "except cls" test: exc is cls or derives from it.
IsInstance(exc, cls) ==
    \/ exc = cls
    \/ BaseOf(exc) = cls
    \/ BaseOf(BaseOf(exc)) = cls

----------------------------------------------------------------------------
(* The environment: what the network does with one request. *)

\* Outcome of the probe GET of the API root: an answer of any kind, a
\* RequestException without a response, a RequestException with a response.
ProbeOutcomes == {"ok", "no_response", "with_response"}

\* Body of an answer: JSON with every expected field; JSON with every
\* expected field but "user"; JSON without the expected fields; not JSON.
Bodies == {"full", "nouser", "empty", "notjson"}

\* The codes the verbs tell apart, and 400 for every other code.
Codes == {OK, CREATED, UNAUTHORIZED, NOT_FOUND, 400}

\* The answers of the server.  ctype: the answer has a Content-Type header
\* (application/json); a body without "user" is told from a full one in the
\* answer to an authentication only.
Responses ==
    {r \in [code : Codes, ctype : BOOLEAN, body : Bodies] :
        r.code \notin {OK, CREATED} => r.body # "nouser"}

NoResponse == [code |-> 0, ctype |-> FALSE, body |-> "notjson"]

\* One request as the environment plays it: pre is the outcome of the probe
\* before the request (made only when DISCONNECTED), raises says the request
\* ends in a requests.exceptions.RequestException, resp is the answer
\* otherwise, post is the outcome of the probe after a raised request.
Envs ==
    {e \in [pre : ProbeOutcomes, raises : BOOLEAN,
            resp : Responses \cup {NoResponse}, post : ProbeOutcomes] :
        /\ e.raises <=> e.resp = NoResponse
        /\ ~e.raises => e.post = "ok"}

NoEnv == [pre |-> "ok", raises |-> TRUE, resp |-> NoResponse, post |-> "ok"]

\* The plays that differ for a client in state m (the pre probe is not made
\* unless the status is DISCONNECTED).
EnvFor(m) == {e \in Envs : m.status # DISCONNECTED => e.pre = "ok"}

----------------------------------------------------------------------------
(* The trace of one call: what went to the network and to the observer. *)

\* Every event has the same fields; resp is the answer received to an "http"
\* event (NoResponse when the request raised), st the client status when the
\* event ended, auth the value of the Authorization header, names the
\* names of the default headers the request carries and data the key that
\* tells one payload from another.
ProbeEv(p, st) ==
    [kind |-> "probe", verb |-> "GET", endpoint |-> "/", auth |-> "absent",
     res |-> p, resp |-> NoResponse, st |-> st, notified |-> FALSE,
     names |-> {},
     data |-> "n/a"]

\* The keys _set_default_headers stores in the headers of a request;
\* _post pops "Authorization" for the authentication endpoint.
DefaultHeaders(auth) ==
    IF auth = "absent" THEN {"Accept", "X-Lens-Source", "X-Lens-Version"}
    ELSE {"Authorization", "Accept", "X-Lens-Source", "X-Lens-Version"}

HttpEv(verb, endpoint, auth, resp, st) ==
    [kind |-> "http", verb |-> verb, endpoint |-> endpoint, auth |-> auth,
     res |-> "n/a", resp |-> resp, st |-> st, notified |-> FALSE,
     names |-> DefaultHeaders(auth), data |-> "n/a"]

StatusEv(st, notified) ==
    [kind |-> "setStatus", verb |-> "n/a", endpoint |-> "n/a",
     auth |-> "absent", res |-> "n/a", resp |-> NoResponse, st |-> st,
     notified |-> notified, names |-> {},
     data |-> "n/a"]

\* A client object with the trace of the running call.
Self ==
    [status |-> status, email |-> email, password |-> password,
     access_token |-> access_token, user |-> user, log |-> <<>>]

Return(m, val) == [m |-> m, exc |-> NoExc, val |-> val]
Raise(m, exc) == [m |-> m, exc |-> exc, val |-> None]

----------------------------------------------------------------------------
(* Connection state machine *)

\* setStatus without its call of the parent
setStatus_unobserved(m, newStatus) ==
    [m EXCEPT !.status = newStatus,
              !.log = Append(@, StatusEv(newStatus, FALSE))]

setStatus(m, newStatus) ==
    [m EXCEPT !.status = newStatus,
              !.log = Append(@, StatusEv(newStatus, parentHasApi))]

\* The statement after a call of setStatus is reached unless
\* self.parent.set_ui_connectionStatus() was called and raised, which no
\* caller of setStatus catches.
Notify(m) ==
    IF /\ observerRaises
       /\ Len(m.log) > 0
       /\ m.log[Len(m.log)].kind = "setStatus"
       /\ m.log[Len(m.log)].notified
    THEN Raise(m, RuntimeError)
    ELSE Return(m, None)

is_logged_in(m) == m.access_token # None /\ m.user # None

is_connected(m) == is_logged_in(m) /\ m.status = CONNECTED

\* logout that keeps the user record
logout_keeping_user(m) ==
    setStatus([m EXCEPT !.email = None, !.password = None,
                        !.access_token = None], LOGGED_OUT)

\* logout that clears the token and the user record only
logout_keeping_email(m) ==
    setStatus([m EXCEPT !.access_token = None, !.user = None], LOGGED_OUT)

logout(m) ==
    setStatus([m EXCEPT !.email = None, !.password = None,
                        !.access_token = None, !.user = None], LOGGED_OUT)

\* requests.get of the API root, which ended as p and leaves the status st
Probed(m, p, st) == [m EXCEPT !.log = Append(@, ProbeEv(p, st))]

\* A RequestException that carries a response reaches no setStatus.
_confirm_online(m, p) ==
    IF p = "ok"
    THEN IF is_logged_in(m)
         THEN setStatus(Probed(m, p, CONNECTED), CONNECTED)
         ELSE setStatus(Probed(m, p, LOGGED_OUT), LOGGED_OUT)
    ELSE IF p = "no_response"
         THEN setStatus(Probed(m, p, DISCONNECTED), DISCONNECTED)
         ELSE Probed(m, p, m.status)

\* return self.status
ReturnStatus(m) ==
    IF Notify(m).exc # NoExc THEN Notify(m) ELSE Return(m, m.status)

getStatus(m, p) == ReturnStatus(_confirm_online(m, p))

\* if self.status == ConnStatus.DISCONNECTED: raise APIClientOfflineException
ThrowIfOffline(m) ==
    IF Notify(m).exc # NoExc THEN Notify(m)
    ELSE IF m.status = DISCONNECTED THEN Raise(m, APIClientOfflineException)
    ELSE Return(m, None)

\* _confirm_online_after_exception without its raise
_confirm_online_after_exception_silent(m, p) ==
    Notify(_confirm_online(m, p))

_confirm_online_after_exception(m, p) ==
    ThrowIfOffline(_confirm_online(m, p))

_properly_throw_if_offline(m, p) ==
    IF m.status = DISCONNECTED THEN ThrowIfOffline(_confirm_online(m, p))
                               ELSE Return(m, None)

----------------------------------------------------------------------------
(* HTTP transport core *)

\* The Authorization header _set_default_headers builds from the token.
Bearer(token) == IF token = None THEN "Bearer None" ELSE "Bearer " \o token

_set_default_headers(m) == Bearer(m.access_token)

\* requests.get / post / patch / delete of an endpoint, played as e
Sent(m, verb, endpoint, auth, e) ==
    [m EXCEPT !.log = Append(@, HttpEv(verb, endpoint, auth, e.resp,
                                       m.status))]

\* response.json()
Json(m, resp) ==
    IF resp.body = "notjson" THEN Raise(m, JSONDecodeError)
                             ELSE Return(m, resp.body)

_dump_response(resp) ==
    IF ~resp.ctype THEN KeyError
    ELSE IF resp.body = "notjson" THEN JSONDecodeError
    ELSE NoExc

_raiseException(m, resp) ==
    IF _dump_response(resp) # NoExc THEN Raise(m, _dump_response(resp))
    ELSE IF resp.body = "notjson" THEN Raise(m, JSONDecodeError)
    ELSE IF resp.body = "empty" THEN Raise(m, KeyError)
    ELSE Raise(m, APIClientRequestException)

\* raise APIClientConnectionError(e), reached when c did not raise
ConnectionError(c) ==
    IF c.exc # NoExc THEN c ELSE Raise(c.m, APIClientConnectionError)

\* except requests.exceptions.RequestException, common to the four verbs
RequestFailed(m, p) == ConnectionError(_confirm_online_after_exception(m, p))

\* The verbs after their request was sent by m: the except clause and the
\* branches on response.status_code.
_delete_response(m, e) ==
    IF e.raises THEN RequestFailed(m, e.post)
    ELSE IF e.resp.code = OK THEN Json(m, e.resp)
    ELSE IF e.resp.code = NOT_FOUND
         THEN Raise(m, APIClientNotFoundException)
    ELSE _raiseException(m, e.resp)

_delete(m, endpoint, e) ==
    _delete_response(Sent(m, "DELETE", endpoint, _set_default_headers(m), e),
                     e)

_request_response(m, e) ==
    IF e.raises THEN RequestFailed(m, e.post)
    ELSE IF e.resp.code = OK THEN Json(m, e.resp)
    ELSE IF e.resp.code = UNAUTHORIZED
         THEN Raise(m, APIClientAuthenticationException)
    ELSE IF e.resp.code = NOT_FOUND
         THEN Raise(m, APIClientNotFoundException)
    ELSE _raiseException(m, e.resp)

\* _request with a second requests.get after one that raised
_request_send_retrying(t, endpoint, e) ==
    IF t.exc # NoExc THEN t
    ELSE IF e.raises
    THEN _request_response(
             Sent(Sent(t.m, "GET", endpoint, _set_default_headers(t.m), e),
                  "GET", endpoint, _set_default_headers(t.m), e), e)
    ELSE _request_response(
             Sent(t.m, "GET", endpoint, _set_default_headers(t.m), e), e)

\* t is how _properly_throw_if_offline ended.
_request_send(t, endpoint, e) ==
    IF t.exc # NoExc THEN t
    ELSE _request_response(
             Sent(t.m, "GET", endpoint, _set_default_headers(t.m), e), e)

_request(m, endpoint, e) ==
    _request_send(_properly_throw_if_offline(m, e.pre), endpoint, e)

_post_response(m, e) ==
    IF e.raises THEN RequestFailed(m, e.post)
    ELSE IF e.resp.code \in {CREATED, OK} THEN Json(m, e.resp)
    ELSE IF e.resp.code = UNAUTHORIZED
         THEN Raise(m, APIClientAuthenticationException)
    ELSE IF e.resp.code = NOT_FOUND
         THEN Raise(m, APIClientNotFoundException)
    ELSE _raiseException(m, e.resp)

\* _post without headers.pop("Authorization")
_post_send_keeping_authorization(t, endpoint, e) ==
    IF t.exc # NoExc THEN t
    ELSE _post_response(
             Sent(t.m, "POST", endpoint, _set_default_headers(t.m), e), e)

_post_send(t, endpoint, e) ==
    IF t.exc # NoExc THEN t
    ELSE _post_response(
             Sent(t.m, "POST", endpoint,
                  IF endpoint = "authentication" THEN "absent"
                  ELSE _set_default_headers(t.m), e), e)

_post(m, endpoint, e) ==
    _post_send(_properly_throw_if_offline(m, e.pre), endpoint, e)

_update_response(m, e) ==
    IF e.raises THEN RequestFailed(m, e.post)
    ELSE IF e.resp.code \in {CREATED, OK} THEN Json(m, e.resp)
    ELSE IF e.resp.code = NOT_FOUND
         THEN Raise(m, APIClientNotFoundException)
    ELSE _raiseException(m, e.resp)

_update_send(t, endpoint, e) ==
    IF t.exc # NoExc THEN t
    ELSE _update_response(
             Sent(t.m, "PATCH", endpoint, _set_default_headers(t.m), e), e)

_update(m, endpoint, e) ==
    _update_send(_properly_throw_if_offline(m, e.pre), endpoint, e)

----------------------------------------------------------------------------
(* Authentication *)

\* self.access_token = data["accessToken"]
SetToken(m) == [m EXCEPT !.access_token = "tok"]

\* self.user = data["user"]
SetUser(m) == [m EXCEPT !.user = "user"]

\* authenticate after its _post ended as r
authenticate_data(r) ==
    IF r.exc # NoExc THEN r
    ELSE IF r.val = "empty" THEN Raise(r.m, KeyError)
    ELSE IF r.val = "nouser" THEN Raise(SetToken(r.m), KeyError)
    ELSE Notify(setStatus(SetUser(SetToken(r.m)), CONNECTED))

\* authenticate without its check of the stored email
authenticate_unchecked(m, e) ==
    authenticate_data(_post(m, "authentication", e))

authenticate(m, e) ==
    IF m.email = None THEN Raise(m, APIClientLoggedOutException)
    ELSE authenticate_data(_post(m, "authentication", e))

----------------------------------------------------------------------------
(* Authentication gate and domain operations *)

\* The wrapper's step before func: Return(m, None) lets func run on m.
authRequired(m, ea) ==
    IF m.access_token = None THEN authenticate(m, ea) ELSE Return(m, None)

\* The wrapper's call of func, which ends as r, after the gate ended as g.
wrapper(g, r) == IF g.exc # NoExc THEN g ELSE r

\* result["data"] and the like: the field of a parsed body
Field(r) ==
    IF r.exc # NoExc THEN r
    ELSE IF r.val = "empty" THEN Raise(r.m, KeyError)
    ELSE r

\* return self.user
ReturnUser(m) == Return(m, m.user)

get_user(m, ea) ==
    wrapper(authRequired(m, ea), ReturnUser(authRequired(m, ea).m))

getModels(m, ea, e) ==
    wrapper(authRequired(m, ea),
            Field(_request(authRequired(m, ea).m, "models", e)))

createModel(m, ea, e) ==
    wrapper(authRequired(m, ea), _post(authRequired(m, ea).m, "models", e))

updateFileObj(m, ea, e) ==
    wrapper(authRequired(m, ea), _update(authRequired(m, ea).m, "file/1", e))

deleteModel(m, ea, e) ==
    wrapper(authRequired(m, ea),
            _delete(authRequired(m, ea).m, "/models/1", e))

getOrganization(m, ea, e) ==
    wrapper(authRequired(m, ea),
            _request(authRequired(m, ea).m, "organizations/1", e))

\* The operations without the authRequired decorator: one GET and
\* result["data"].
get_public_shared_models(m, e) == Field(_request(m, "shared-models", e))

getOndselOrganization(m, e) == Field(_request(m, "organizations", e))

\* get_search_results behind the authRequired decorator
get_search_results_gated(m, e) ==
    wrapper(authRequired(m, e),
            Field(_request(authRequired(m, e).m, "keywords", e)))

get_search_results(m, e) == Field(_request(m, "keywords", e))

\* createDirectory followed by an updateDirectory of the parent
AttachToParent(r, e) ==
    IF r.exc # NoExc THEN r ELSE _update(r.m, "directories/1", e)

createDirectory_then_attach(m, ea, e) ==
    wrapper(authRequired(m, ea),
            AttachToParent(_post(authRequired(m, ea).m, "directories", e), e))

\* The parent directory goes in the payload of the POST.
createDirectory(m, ea, e) ==
    wrapper(authRequired(m, ea),
            _post(authRequired(m, ea).m, "directories", e))

\* The request to endpoint in the trace of r was sent with data=payload,
\* a payload under the key payloadHeader.
Carrying(r, endpoint, payloadHeader) ==
    [r EXCEPT !.m.log =
        [i \in DOMAIN r.m.log |->
            IF r.m.log[i].kind = "http" /\ r.m.log[i].endpoint = endpoint
            THEN [r.m.log[i] EXCEPT !.data = payloadHeader]
            ELSE r.m.log[i]]]

\* orgData.get("preferencesId") of a parsed body
PreferencesId(body) == IF body = "empty" THEN None ELSE "1"

\* uploadPrefs that always creates the preferences
PrefsDispatch_always_post(org, e) ==
    IF org.exc # NoExc THEN org
    ELSE Carrying(_post(org.m, "preferences", e), "preferences",
                  "organizationId")

\* uploadPrefs once its getOrganization ended as org
PrefsDispatch(org, e) ==
    IF org.exc # NoExc THEN org
    ELSE IF PreferencesId(org.val) # None
    THEN Carrying(_update(org.m, "preferences/1", e), "preferences/1",
                  "shouldCommitNewVersion")
    ELSE Carrying(_post(org.m, "preferences", e), "preferences",
                  "organizationId")

\* The gate of the inner getOrganization finds the token of the outer one.
uploadPrefs(m, ea, eo, e) ==
    wrapper(authRequired(m, ea),
            PrefsDispatch(getOrganization(authRequired(m, ea).m, NoEnv, eo),
                          e))

\* File.from_json(file_json) and the scan of file.versions
FromJson(r) == Field(r)

\* The except clause catching every exception of the public attempt
PrivateAttempt_on_any_failure(pub, e2) ==
    IF pub.exc # NoExc
    THEN _request(pub.m, "file/1", e2)
    ELSE pub

\* The except clause around the public attempt, which ended as pub.
PrivateAttempt(pub, e2) ==
    IF IsInstance(pub.exc, APIClientRequestException)
    THEN _request(pub.m, "file/1", e2)
    ELSE pub

\* The body of get_file_version_details: e1 plays the first GET, e2 the GET
\* of the except clause.
FileJson(m, e1, e2, public) ==
    IF public
    THEN PrivateAttempt(_request(m, "file/1?publicInfo=true", e1), e2)
    ELSE _request(m, "file/1", e1)

get_file_version_details(m, ea, e1, e2, public) ==
    wrapper(authRequired(m, ea),
            FromJson(FileJson(authRequired(m, ea).m, e1, e2, public)))

----------------------------------------------------------------------------
(* Result-wrapping helper *)

APICallResult ==
    {"APICallResult.OK", "APICallResult.DISCONNECTED",
     "APICallResult.NOT_LOGGED_IN", "APICallResult.PERMISSION_ISSUE",
     "APICallResult.GENERAL_ERROR"}

\* fancy_handle with the clause of the base class APIClientException first
fancy_handle_base_first(exc) ==
    IF exc = NoExc THEN "APICallResult.OK"
    ELSE IF IsInstance(exc, APIClientException)
         THEN "APICallResult.GENERAL_ERROR"
    ELSE IF IsInstance(exc, APIClientOfflineException)
         THEN "APICallResult.DISCONNECTED"
    ELSE IF IsInstance(exc, APIClientLoggedOutException)
         THEN "APICallResult.NOT_LOGGED_IN"
    ELSE IF IsInstance(exc, APIClientAuthenticationException)
         THEN "APICallResult.PERMISSION_ISSUE"
    ELSE "APICallResult.GENERAL_ERROR"

\* exc is how func() ended: the except clauses in their order.
fancy_handle(exc) ==
    IF exc = NoExc THEN "APICallResult.OK"
    ELSE IF IsInstance(exc, APIClientOfflineException)
         THEN "APICallResult.DISCONNECTED"
    ELSE IF IsInstance(exc, APIClientLoggedOutException)
         THEN "APICallResult.NOT_LOGGED_IN"
    ELSE IF IsInstance(exc, APIClientRequestException)
         THEN "APICallResult.GENERAL_ERROR"
    ELSE IF IsInstance(exc, APIClientAuthenticationException)
         THEN "APICallResult.PERMISSION_ISSUE"
    ELSE IF IsInstance(exc, APIClientException)
         THEN "APICallResult.GENERAL_ERROR"
    ELSE "APICallResult.GENERAL_ERROR"

\* The "get-like methods" fancy_auth_call is used with.
ApiMethods == {"getOrganization", "getModels"}

\* api_method(key), a bound method of the client
ApiMethod(name, m, ea, e) ==
    IF name = "getModels" THEN getModels(m, ea, e)
                          ELSE getOrganization(m, ea, e)

\* The body of fancy_auth_call once api_method(key) ended as f under
\* fancy_handle: the pair (answer, response) is returned as val and result.
AnswerResponse(f, response) ==
    [m |-> f.m, exc |-> NoExc,
     val |-> IF response # "APICallResult.OK" THEN None ELSE f.val,
     result |-> response]

\* The gate of fancy_auth_call ended as g, its body as r.
fancy_wrapper(g, r) ==
    IF g.exc # NoExc
    THEN [m |-> g.m, exc |-> g.exc, val |-> None, result |-> None]
    ELSE r

fancy_call(m, e, api_method) ==
    AnswerResponse(ApiMethod(api_method, m, NoEnv, e),
                   fancy_handle(ApiMethod(api_method, m, NoEnv, e).exc))

fancy_auth_call(m, ea, e, api_method) ==
    fancy_wrapper(authRequired(m, ea),
                  fancy_call(authRequired(m, ea).m, e, api_method))

----------------------------------------------------------------------------
(* Workspace synchronization model (src/WorkSpace.py) *)

\* What the local directory holds under one name: isdir and mtime are what
\* os.path.isdir and os.path.getmtime report, openable what
\* Utils.isOpenableByFreeCAD says of the name.
DirEntries ==
    {[name |-> "a.FCStd", isdir |-> FALSE, openable |-> TRUE, mtime |-> 2],
     [name |-> "b.FCStd", isdir |-> FALSE, openable |-> TRUE, mtime |-> 2],
     [name |-> "sub", isdir |-> TRUE, openable |-> FALSE, mtime |-> 2]}

\* The records of the server's model list
RemoteModels ==
    [_id : {"id1"}, custFileName : {"a.FCStd"}, updatedAt : 1..3]
    \cup [_id : {"id2"}, custFileName : {"c.FCStd"}, updatedAt : {1}]

\* A FileItem, and a model dict with its "status" key, as entries of
\* self.files.
FileItem(name, is_folder, updated_at, fstatus) ==
    [type |-> "FileItem", name |-> name, is_folder |-> is_folder,
     id |-> None, stamp |-> updated_at, status |-> fstatus]

ModelDict(model, fstatus) ==
    [type |-> "dict", name |-> model.custFileName, is_folder |-> FALSE,
     id |-> model._id, stamp |-> model.updatedAt, status |-> fstatus]

\* The workspace model with its client, its directory and the server.
WSelf ==
    [m |-> Self, workspacetype |-> workspacetype, disk |-> disk,
     server |-> server, files |-> files]

WReturn(w, val) == [w |-> w, exc |-> NoExc, val |-> val]
WRaise(w, exc) == [w |-> w, exc |-> exc, val |-> None]

\* A step on the local directory or on self.files, in the trace of the call
DiskEv(kind, name) ==
    [kind |-> kind, verb |-> "n/a", endpoint |-> name, auth |-> "absent",
     res |-> "n/a", resp |-> NoResponse, st |-> "n/a", notified |-> FALSE,
     names |-> {},
     data |-> "n/a"]

Logged(w, ev) == [w EXCEPT !.m.log = Append(@, ev)]

\* os.path.isfile and os.path.isdir of a name in the current directory
isfile(d, name) ==
    d.exists /\ \E i \in DOMAIN d.entries :
                    d.entries[i].name = name /\ ~d.entries[i].isdir

isdir(d, name) ==
    d.exists /\ \E i \in DOMAIN d.entries :
                    d.entries[i].name = name /\ d.entries[i].isdir

getmtime(d, name) ==
    d.entries[CHOOSE i \in DOMAIN d.entries : d.entries[i].name = name].mtime

\* os.makedirs(self.getFullPath()) when the path does not exist
makedirs(w) ==
    IF w.disk.exists THEN w
    ELSE Logged([w EXCEPT !.disk = [exists |-> TRUE, entries |-> <<>>]],
                DiskEv("makedirs", "."))

IsFolder(entry) == entry.isdir
IsOpenable(entry) == entry.openable

FolderItem(entry) == FileItem(entry.name, TRUE, "", "")
OpenableItem(entry) == FileItem(entry.name, FALSE, entry.mtime, "Untracked")

\* The two loops over os.listdir: the folders, then the openable files.
local_files(listing) ==
    [i \in 1..Len(SelectSeq(listing, IsFolder)) |->
        FolderItem(SelectSeq(listing, IsFolder)[i])]
    \o [i \in 1..Len(SelectSeq(listing, IsOpenable)) |->
           OpenableItem(SelectSeq(listing, IsOpenable)[i])]

\* getLocalFiles once the directory exists
ListLocalFiles(w) == WReturn(w, local_files(w.disk.entries))

getLocalFiles(w) == ListLocalFiles(makedirs(w))

\* self.files extended by files in place of being replaced
SetFiles_extending(w, fs) ==
    Logged([w EXCEPT !.files = @ \o fs], DiskEv("files", "reset"))

\* self.files = files
SetFiles(w, fs) ==
    Logged([w EXCEPT !.files = fs], DiskEv("files", "reset"))

LocalRefreshModel(w) ==
    IF ~w.disk.exists THEN WReturn(SetFiles(w, <<>>), None)
    ELSE WReturn(SetFiles(getLocalFiles(w).w, getLocalFiles(w).val), None)

\* The branches of the first loop of ServerWorkspaceModel.refreshModel on
\* one model: the status it stores under model["status"], or the exception
\* of the attribute assignment model.status = "ToUpload" on a dict.
ModelStatus(d, model) ==
    IF ~isfile(d, model.custFileName) THEN "ToDownload"
    ELSE IF model.updatedAt < getmtime(d, model.custFileName)
         THEN AttributeError
    ELSE IF model.updatedAt > getmtime(d, model.custFileName)
         THEN "ToDownload"
    ELSE "Synced"

\* files after the first loop ran over all of models
ModelEntries(d, models) ==
    [i \in DOMAIN models |-> ModelDict(models[i], ModelStatus(d, models[i]))]

\* for model in models: if candidate.name == model["custFileName"], from
\* position j on; a FileItem is not subscriptable.
RECURSIVE Find(_, _, _)
Find(name, models, j) ==
    IF j > Len(models) THEN "not found"
    ELSE IF models[j].type = "FileItem" THEN TypeError
    ELSE IF name = models[j].name THEN "found"
    ELSE Find(name, models, j + 1)

\* candidate.status = "ToUpload"
ToUpload(candidate) == [candidate EXCEPT !.status = "ToUpload"]

\* The second loop from candidate i on: models is the list it appends to.
RECURSIVE AddCandidates(_, _, _)
AddCandidates(candidates, i, models) ==
    IF i > Len(candidates) THEN NoExc
    ELSE IF candidates[i].is_folder
         THEN AddCandidates(candidates, i + 1, models)
    ELSE IF Find(candidates[i].name, models, 1) = TypeError THEN TypeError
    ELSE IF Find(candidates[i].name, models, 1) = "found"
         THEN AddCandidates(candidates, i + 1, models)
    ELSE AddCandidates(candidates, i + 1,
                       Append(models, ToUpload(candidates[i])))

\* refreshModel from "candidates = self.getLocalFiles()" on: c is how
\* getLocalFiles ended, fs the list the first loop built.
SecondLoop(c, models, fs) ==
    IF AddCandidates(c.val, 1, models) # NoExc
    THEN WRaise(c.w, AddCandidates(c.val, 1, models))
    ELSE WReturn(SetFiles(c.w, fs), None)

\* refreshModel from "files = []" on
FirstLoop(w, models) ==
    IF \E i \in DOMAIN models :
           ModelStatus(w.disk, models[i]) = AttributeError
    THEN WRaise(w, AttributeError)
    ELSE SecondLoop(getLocalFiles(w), ModelEntries(w.disk, models),
                    ModelEntries(w.disk, models))

\* self.API_Client.<method>() ended as r in the workspace model w
Called(w, r) == [w EXCEPT !.m = r.m]

\* refreshModel once getModels ended as g: the list is the server's.
Reconcile(w, g) ==
    IF g.exc # NoExc THEN WRaise(Called(w, g), g.exc)
    ELSE FirstLoop(Called(w, g), w.server)

ServerRefreshModel(w, ea, e) == Reconcile(w, getModels(w.m, ea, e))

\* ServerWorkspaceModel.data(index, WorkSpaceModel.IdRole); index 0 is an
\* index that is not valid, any other the row of an entry.
ServerData_IdRole(w, index) ==
    IF index = 0 THEN None ELSE w.files[index].id

\* LocalWorkspaceModel.data(index, WorkSpaceModel.NameRole)
LocalData_NameRole(w, index) == w.files[index].name

\* The entries of a directory without the one called name
Without(entries, name) ==
    SelectSeq(entries, LAMBDA en : en.name # name)

\* os.remove(fileName) or shutil.rmtree(fileName), whichever applies
Removed(w, name) ==
    IF isfile(w.disk, name)
    THEN Logged([w EXCEPT !.disk.entries = Without(@, name)],
                DiskEv("remove", name))
    ELSE IF isdir(w.disk, name)
    THEN Logged([w EXCEPT !.disk.entries = Without(@, name)],
                DiskEv("rmtree", name))
    ELSE w

\* WorkSpaceModel.deleteFile as a LocalWorkspaceModel runs it
LocalDeleteFile(w, index) ==
    LocalRefreshModel(Removed(w, LocalData_NameRole(w, index)))

\* The server's list once it answered 200 to the DELETE of the record
ServerDeleted(models, fileId) ==
    SelectSeq(models, LAMBDA model : model._id # fileId)

\* The DELETE of deleteModel was sent and answered 200.
DeleteAnswered(w, ea, e) ==
    /\ authRequired(w.m, ea).exc = NoExc
    /\ ~e.raises
    /\ e.resp.code = OK

\* super.deleteFile(index): the builtin super has no attribute deleteFile.
SuperDeleteFile(w) == WRaise(w, AttributeError)

\* deleteFile once self.API_Client.deleteModel(fileId) ended as r
AfterDeleteModel(w, r) ==
    IF r.exc # NoExc THEN WRaise(Called(w, r), r.exc)
    ELSE SuperDeleteFile(Called(w, r))

\* deleteFile that removes the local file before the remote delete
ServerDeleteFile_local_first(w, index, ea, e) ==
    IF ServerData_IdRole(w, index) = None THEN SuperDeleteFile(w)
    ELSE AfterDeleteModel(
             IF DeleteAnswered(w, ea, e)
             THEN [Removed(w, w.files[index].name) EXCEPT !.server =
                       ServerDeleted(@, ServerData_IdRole(w, index))]
             ELSE Removed(w, w.files[index].name),
             deleteModel(Removed(w, w.files[index].name).m, ea, e))

ServerDeleteFile(w, index, ea, e) ==
    IF ServerData_IdRole(w, index) = None THEN SuperDeleteFile(w)
    ELSE AfterDeleteModel(
             IF DeleteAnswered(w, ea, e)
             THEN [w EXCEPT !.server =
                       ServerDeleted(@, ServerData_IdRole(w, index))]
             ELSE w,
             deleteModel(w.m, ea, e))

\* WorkSpaceModel.__init__
WorkSpaceModel(w, type) == [w EXCEPT !.workspacetype = type, !.files = <<>>]

\* LocalWorkspaceModel.__init__: two refreshes
LocalWorkspaceModel(w) ==
    LocalRefreshModel(LocalRefreshModel(WorkSpaceModel(w, "Local")).w)

\* ServerWorkspaceModel.__init__ once its refreshModel ended as r: no model
\* is built when it raised.
ServerConstructed(w, r) ==
    IF r.exc # NoExc
    THEN WRaise([r.w EXCEPT !.workspacetype = w.workspacetype,
                            !.files = w.files], r.exc)
    ELSE WReturn(makedirs(r.w), None)

ServerWorkspaceModel(w, ea, e) ==
    ServerConstructed(w, ServerRefreshModel(WorkSpaceModel(w, "Ondsel"),
                                            ea, e))

----------------------------------------------------------------------------
(* The calls of the client, one action each *)

\* The record of the last call of the client; loggedOut says that logout()
\* has been called on this client, and is kept between the calls.
NoCall ==
    [op |-> "none", arg |-> None, pre |-> [status |-> DISCONNECTED,
     email |-> None, password |-> None, access_token |-> None, user |-> None],
     exc |-> NoExc, val |-> None, result |-> None, log |-> <<>>,
     loggedOut |-> FALSE]

\* The record of the last call of the workspace model: refreshed says that
\* the last call ended with a refreshModel that had the server's list and
\* that neither the directory nor the server changed since.
NoWCall ==
    [op |-> "none", arg |-> None,
     pre |-> [files |-> <<>>, refreshed |-> FALSE],
     exc |-> NoExc, listed |-> FALSE, log |-> <<>>, refreshed |-> FALSE]

\* The caller is between two calls: last holds the construction or nothing.
Ready == last.op \in {"__init__", "none"} /\ wlast.op = "none"

\* The call op(arg) ended as r (and, for the wrapping helper, as result).
Finish(op, arg, r, result) ==
    /\ status' = r.m.status
    /\ email' = r.m.email
    /\ password' = r.m.password
    /\ access_token' = r.m.access_token
    /\ user' = r.m.user
    /\ last' = [op |-> op, arg |-> arg,
                pre |-> [status |-> status, email |-> email,
                         password |-> password,
                         access_token |-> access_token, user |-> user],
                exc |-> r.exc, val |-> r.val, result |-> result,
                log |-> r.m.log,
                loggedOut |-> last.loggedOut \/ op = "logout"]
    /\ UNCHANGED <<parentHasApi, observerRaises>>
    /\ UNCHANGED wvars

\* APIClient(parent, email, password, ..., access_token, user): the parent
\* has no attribute "api" yet unless it already held another client.
APIClientInit ==
    /\ parentHasApi \in BOOLEAN
    /\ observerRaises = FALSE
    /\ \E em \in Emails \cup {None}, tk \in AccessTokens \cup {None},
          us \in Users \cup {None} :
        IF tk = None
        THEN /\ email = em
             /\ password = IF em = None THEN None ELSE "pw"
             /\ access_token = None
             /\ user = None
             /\ status = LOGGED_OUT
        ELSE /\ email = None
             /\ password = None
             /\ access_token = tk
             /\ user = us
             /\ status = CONNECTED
    /\ last = [NoCall EXCEPT
                 !.op = "__init__",
                 !.log = <<StatusEv(status, parentHasApi)>>]

\* The client alone: no workspace model is built.
Init ==
    /\ APIClientInit
    /\ workspacetype = None
    /\ disk = [exists |-> FALSE, entries |-> <<>>]
    /\ server = <<>>
    /\ files = <<>>
    /\ wlast = NoWCall

\* parent.api = APIClient(...): the construction is over.
ParentSetsApi ==
    /\ Ready
    /\ ~parentHasApi
    /\ parentHasApi' = TRUE
    /\ last' = [NoCall EXCEPT !.loggedOut = last.loggedOut]
    /\ UNCHANGED <<status, email, password, access_token, user,
                   observerRaises>>
    /\ UNCHANGED wvars

\* The parent's set_ui_connectionStatus raises from now on.
ObserverBreaks ==
    /\ Ready
    /\ parentHasApi
    /\ ~observerRaises
    /\ observerRaises' = TRUE
    /\ UNCHANGED <<status, email, password, access_token, user,
                   parentHasApi, last>>
    /\ UNCHANGED wvars

\* The caller has taken the outcome of the call and goes on; last is the
\* record of one call and is dropped between two calls.
Continue ==
    /\ last.op \notin {"__init__", "none"}
    /\ last' = [NoCall EXCEPT !.loggedOut = last.loggedOut]
    /\ UNCHANGED <<status, email, password, access_token, user,
                   parentHasApi, observerRaises>>
    /\ UNCHANGED wvars

GetStatus ==
    /\ Ready
    /\ \E p \in ProbeOutcomes :
           Finish("getStatus", None, getStatus(Self, p), None)

Logout ==
    /\ Ready
    /\ Finish("logout", None, Notify(logout(Self)), None)

Authenticate ==
    /\ Ready
    /\ \E e \in EnvFor(Self) :
           Finish("authenticate", None, authenticate(Self, e), None)

Endpoints == {"models"}

Request ==
    /\ Ready
    /\ \E ep \in Endpoints, e \in EnvFor(Self) :
           Finish("_request", ep, _request(Self, ep, e), None)

Post ==
    /\ Ready
    /\ \E ep \in Endpoints, e \in EnvFor(Self) :
           Finish("_post", ep, _post(Self, ep, e), None)

Update ==
    /\ Ready
    /\ \E ep \in Endpoints, e \in EnvFor(Self) :
           Finish("_update", ep, _update(Self, ep, e), None)

Delete ==
    /\ Ready
    /\ \E ep \in Endpoints, e \in EnvFor(Self) :
           Finish("_delete", ep, _delete(Self, ep, e), None)

\* What the environment plays to the authentication of the gate and, when the
\* gate lets the operation run, to the operation's request.
AuthEnvFor(m) ==
    IF m.access_token = None /\ m.email # None THEN EnvFor(m) ELSE {NoEnv}

BodyEnvFor(m, ea) ==
    IF authRequired(m, ea).exc # NoExc THEN {NoEnv}
                                       ELSE EnvFor(authRequired(m, ea).m)

GetUser ==
    /\ Ready
    /\ \E ea \in AuthEnvFor(Self) :
           Finish("get_user", None, get_user(Self, ea), None)

GetModels ==
    /\ Ready
    /\ \E ea \in AuthEnvFor(Self) : \E e \in BodyEnvFor(Self, ea) :
           Finish("getModels", None, getModels(Self, ea, e), None)

CreateModel ==
    /\ Ready
    /\ \E ea \in AuthEnvFor(Self) : \E e \in BodyEnvFor(Self, ea) :
           Finish("createModel", None, createModel(Self, ea, e), None)

UpdateFileObj ==
    /\ Ready
    /\ \E ea \in AuthEnvFor(Self) : \E e \in BodyEnvFor(Self, ea) :
           Finish("updateFileObj", None, updateFileObj(Self, ea, e), None)

DeleteModel ==
    /\ Ready
    /\ \E ea \in AuthEnvFor(Self) : \E e \in BodyEnvFor(Self, ea) :
           Finish("deleteModel", None, deleteModel(Self, ea, e), None)

CreateDirectory ==
    /\ Ready
    /\ \E ea \in AuthEnvFor(Self) : \E e \in BodyEnvFor(Self, ea) :
           Finish("createDirectory", None, createDirectory(Self, ea, e), None)

GetOrganization ==
    /\ Ready
    /\ \E ea \in AuthEnvFor(Self) : \E e \in BodyEnvFor(Self, ea) :
           Finish("getOrganization", None, getOrganization(Self, ea, e), None)

\* The PATCH or POST is played only when the organization was fetched.
PrefsEnvFor(m, ea, eo) ==
    IF getOrganization(m, ea, eo).exc # NoExc
    THEN {NoEnv}
    ELSE EnvFor(getOrganization(m, ea, eo).m)

UploadPrefs ==
    /\ Ready
    /\ \E ea \in AuthEnvFor(Self) : \E eo \in BodyEnvFor(Self, ea) :
       \E e \in PrefsEnvFor(Self, ea, eo) :
           Finish("uploadPrefs", None, uploadPrefs(Self, ea, eo, e), None)

GetPublicSharedModels ==
    /\ Ready
    /\ \E e \in EnvFor(Self) :
           Finish("get_public_shared_models", None,
                  get_public_shared_models(Self, e), None)

GetOndselOrganization ==
    /\ Ready
    /\ \E e \in EnvFor(Self) :
           Finish("getOndselOrganization", None,
                  getOndselOrganization(Self, e), None)

GetSearchResults ==
    /\ Ready
    /\ \E e \in EnvFor(Self) :
           Finish("get_search_results", None,
                  get_search_results(Self, e), None)

\* The second GET is played only when the first one is caught.
PublicAttempt(m, ea, e1) ==
    _request(authRequired(m, ea).m, "file/1?publicInfo=true", e1)

SecondEnvFor(m, ea, e1, public) ==
    IF /\ authRequired(m, ea).exc = NoExc
       /\ public
       /\ IsInstance(PublicAttempt(m, ea, e1).exc, APIClientRequestException)
    THEN EnvFor(PublicAttempt(m, ea, e1).m)
    ELSE {NoEnv}

GetFileVersionDetails ==
    /\ Ready
    /\ \E public \in BOOLEAN :
       \E ea \in AuthEnvFor(Self) : \E e1 \in BodyEnvFor(Self, ea) :
       \E e2 \in SecondEnvFor(Self, ea, e1, public) :
           Finish("get_file_version_details",
                  IF public THEN "public=True" ELSE "public=False",
                  get_file_version_details(Self, ea, e1, e2, public), None)

\* The exceptions a wrapped function can end with.
Exceptions ==
    {APIClientException, APIClientAuthenticationException,
     APIClientConnectionError, APIClientRequestException,
     APIClientLoggedOutException, APIClientOfflineException,
     APIClientNotFoundException, APIClientTierException,
     KeyError, JSONDecodeError, AttributeError, TypeError, RuntimeError,
     BaseExc}

\* fancy_handle(func) for a func that ends as exc
FancyHandle ==
    /\ Ready
    /\ \E exc \in Exceptions \cup {NoExc} :
           Finish("fancy_handle", exc, Return(Self, None), fancy_handle(exc))

FancyAuthCall ==
    /\ Ready
    /\ \E api_method \in ApiMethods :
       \E ea \in AuthEnvFor(Self) : \E e \in BodyEnvFor(Self, ea) :
           Finish("fancy_auth_call", api_method,
                  fancy_auth_call(Self, ea, e, api_method),
                  fancy_auth_call(Self, ea, e, api_method).result)

----------------------------------------------------------------------------
(* The calls of the workspace model, one action each *)

MaxListing == 2
MaxModels == 2

\* The sequences without repetition of at most n elements of S
Listings(S, n) ==
    {q \in UNION {[1..k -> S] : k \in 0..n} :
        \A i, j \in DOMAIN q : i # j => q[i] # q[j]}

\* The local directory of the workspace: absent, or os.listdir in its order
Disks ==
    {[exists |-> FALSE, entries |-> <<>>]}
    \cup {[exists |-> TRUE, entries |-> q] :
             q \in Listings(DirEntries, MaxListing)}

\* The model list of the server: one record for each id
Servers ==
    {q \in Listings(RemoteModels, MaxModels) :
        \A i, j \in DOMAIN q : i # j => q[i]._id # q[j]._id}

\* The client is built and held by its parent; then the workspace is made.
InitWS ==
    /\ APIClientInit
    /\ parentHasApi
    /\ workspacetype = None
    /\ disk \in Disks
    /\ server \in Servers
    /\ files = <<>>
    /\ wlast = NoWCall

\* The call op(arg) of the workspace model ended as r.
WFinish(op, arg, r, listed, refreshed) ==
    /\ status' = r.w.m.status
    /\ email' = r.w.m.email
    /\ password' = r.w.m.password
    /\ access_token' = r.w.m.access_token
    /\ user' = r.w.m.user
    /\ workspacetype' = r.w.workspacetype
    /\ disk' = r.w.disk
    /\ server' = r.w.server
    /\ files' = r.w.files
    /\ wlast' = [op |-> op, arg |-> arg,
                 pre |-> [files |-> files, refreshed |-> wlast.refreshed],
                 exc |-> r.exc, listed |-> listed, log |-> r.w.m.log,
                 refreshed |-> refreshed]
    /\ UNCHANGED <<parentHasApi, observerRaises, last>>

WContinue ==
    /\ wlast.op # "none"
    /\ wlast' = [NoWCall EXCEPT !.refreshed = wlast.refreshed]
    /\ UNCHANGED <<workspacetype, disk, server, files>>
    /\ UNCHANGED cvars

\* The answers played to the requests of a workspace model: one of each
\* outcome of a verb, and a body without the expected fields.
WorkspaceResponses ==
    {r \in Responses :
        r.ctype /\ r.body = "full" /\ r.code \in {OK, UNAUTHORIZED}}
    \cup {[code |-> OK, ctype |-> TRUE, body |-> "empty"]}

WEnvs(envs) == {e \in envs : e.raises \/ e.resp \in WorkspaceResponses}

\* getModels of the refresh returned the list.
Listed(m, ea, e) == getModels(m, ea, e).exc = NoExc

\* WorkSpaceModelFactory.createWorkspace({"type": "Local", ...})
CreateLocalWorkspace ==
    /\ Ready
    /\ workspacetype = None
    /\ server = <<>>
    /\ WFinish("__init__", "Local", LocalWorkspaceModel(WSelf), TRUE, TRUE)

\* WorkSpaceModelFactory.createWorkspace({"type": "Ondsel", ...})
CreateServerWorkspace ==
    /\ Ready
    /\ workspacetype = None
    /\ \E ea \in WEnvs(AuthEnvFor(Self)) :
       \E e \in WEnvs(BodyEnvFor(Self, ea)) :
           WFinish("__init__", "Ondsel", ServerWorkspaceModel(WSelf, ea, e),
                   Listed(Self, ea, e), Listed(Self, ea, e))

LocalRefresh ==
    /\ Ready
    /\ workspacetype = "Local"
    /\ WFinish("refreshModel", None, LocalRefreshModel(WSelf), TRUE, TRUE)

ServerRefresh ==
    /\ Ready
    /\ workspacetype = "Ondsel"
    /\ \E ea \in WEnvs(AuthEnvFor(Self)) :
       \E e \in WEnvs(BodyEnvFor(Self, ea)) :
           WFinish("refreshModel", None, ServerRefreshModel(WSelf, ea, e),
                   Listed(Self, ea, e), Listed(Self, ea, e))

\* The directory d after one change: it is made, or one entry appears in it
\* or goes from it.
DirectoryChanges(d) ==
    {c \in Disks \ {d} :
        /\ c.exists
        /\ \/ c.entries = d.entries
           \/ \E i \in DOMAIN d.entries :
                  c.entries = Without(d.entries, d.entries[i].name)
           \/ \E i \in DOMAIN c.entries :
                  d.entries = Without(c.entries, c.entries[i].name)}

\* A file or folder appears in or goes from the directory and the
\* QFileSystemWatcher of the model, connected to refreshModel, fires.
LocalDirectoryChanged ==
    /\ Ready
    /\ workspacetype = "Local"
    /\ \E d \in DirectoryChanges(disk) :
           WFinish("refreshModel", "directoryChanged",
                   LocalRefreshModel([WSelf EXCEPT !.disk = d]), TRUE, TRUE)

ServerDirectoryChanged ==
    /\ Ready
    /\ workspacetype = "Ondsel"
    /\ \E d \in DirectoryChanges(disk) :
       \E ea \in WEnvs(AuthEnvFor(Self)) :
       \E e \in WEnvs(BodyEnvFor(Self, ea)) :
           WFinish("refreshModel", "directoryChanged",
                   ServerRefreshModel([WSelf EXCEPT !.disk = d], ea, e),
                   Listed(Self, ea, e), Listed(Self, ea, e))

\* The list s of the server after one change made by somebody else: a
\* record is added to it or goes from it.
ServerChanges(s) ==
    {c \in Servers \ {s} :
        \/ \E i \in DOMAIN s : c = ServerDeleted(s, s[i]._id)
        \/ \E i \in DOMAIN c : s = ServerDeleted(c, c[i]._id)}

\* Nothing tells the workspace model of it.
ServerChanged ==
    /\ Ready
    /\ workspacetype = "Ondsel"
    /\ \E s \in ServerChanges(server) : server' = s
    /\ wlast' = [NoWCall EXCEPT !.refreshed = FALSE]
    /\ UNCHANGED <<workspacetype, disk, files>>
    /\ UNCHANGED cvars

LocalDelete ==
    /\ Ready
    /\ workspacetype = "Local"
    /\ \E index \in DOMAIN files :
           WFinish("deleteFile", index, LocalDeleteFile(WSelf, index),
                   TRUE, TRUE)

ServerDelete ==
    /\ Ready
    /\ workspacetype = "Ondsel"
    /\ \E index \in 0..Len(files) :
       \E ea \in WEnvs(AuthEnvFor(Self)) :
       \E e \in WEnvs(BodyEnvFor(Self, ea)) :
           WFinish("deleteFile", index, ServerDeleteFile(WSelf, index, ea, e),
                   FALSE,
                   /\ wlast.refreshed
                   /\ ServerDeleteFile(WSelf, index, ea, e).w.server = server)

NextWS ==
    \/ CreateLocalWorkspace
    \/ CreateServerWorkspace
    \/ LocalRefresh
    \/ ServerRefresh
    \/ LocalDirectoryChanged
    \/ ServerDirectoryChanged
    \/ ServerChanged
    \/ LocalDelete
    \/ ServerDelete
    \/ WContinue

SpecWS == InitWS /\ [][NextWS]_vars

Next ==
    \/ ParentSetsApi
    \/ Continue
    \/ GetStatus
    \/ Logout
    \/ Authenticate
    \/ Request
    \/ Post
    \/ Update
    \/ Delete
    \/ GetUser
    \/ GetModels
    \/ CreateModel
    \/ UpdateFileObj
    \/ DeleteModel
    \/ CreateDirectory
    \/ GetOrganization
    \/ UploadPrefs
    \/ GetPublicSharedModels
    \/ GetOndselOrganization
    \/ GetSearchResults
    \/ GetFileVersionDetails
    \/ FancyHandle
    \/ FancyAuthCall

Spec == Init /\ [][Next]_vars

\* The connection state machine and the transport verbs of a client whose
\* parent's set_ui_connectionStatus may come to raise.
NextObserver ==
    \/ ParentSetsApi
    \/ ObserverBreaks
    \/ Continue
    \/ GetStatus
    \/ Logout
    \/ Authenticate
    \/ Request
    \/ Post
    \/ Update
    \/ Delete

SpecObserver == Init /\ [][NextObserver]_vars

----------------------------------------------------------------------------
(* Properties *)

TypeOK ==
    /\ status \in ConnStatus
    /\ email \in Emails \cup {None}
    /\ access_token \in AccessTokens \cup {None}
    /\ user \in Users \cup {None}
    /\ last.exc \in Exceptions \cup {NoExc}
    /\ workspacetype \in {None, "Local", "Ondsel"}
    /\ disk \in Disks
    /\ wlast.exc \in Exceptions \cup {NoExc}
    /\ \A i \in DOMAIN files :
          files[i].status \in {"", "Untracked", "ToUpload", "ToDownload",
                               "Synced"}

Verbs == {"_request", "_post", "_update", "_delete"}

ProtectedOps ==
    {"get_user", "getModels", "createModel", "updateFileObj", "deleteModel",
     "createDirectory", "getOrganization", "uploadPrefs",
     "get_file_version_details", "fancy_auth_call"}

\* Positions of the probes and of the HTTP requests in the last call's trace
Probes == {i \in DOMAIN last.log : last.log[i].kind = "probe"}
Https == {i \in DOMAIN last.log : last.log[i].kind = "http"}
AuthPosts ==
    {i \in Https : last.log[i].verb = "POST"
                    /\ last.log[i].endpoint = "authentication"}

CredentialsKept ==
    /\ email = last.pre.email
    /\ password = last.pre.password
    /\ access_token = last.pre.access_token
    /\ user = last.pre.user

\* C1: a transport verb invoked while DISCONNECTED makes exactly one probe
\* first, and if the status is still DISCONNECTED after it the verb fails
\* with APIClientOfflineException without issuing its HTTP request.
C1_OfflineGuard ==
    (last.op \in Verbs /\ last.pre.status = DISCONNECTED) =>
        /\ Len(last.log) >= 1
        /\ last.log[1].kind = "probe"
        /\ Cardinality({i \in Probes : \A j \in Https : i < j}) = 1
        /\ last.log[1].st = DISCONNECTED =>
              /\ last.exc = APIClientOfflineException
              /\ Https = {}

\* C2: an answer with status 401 to a transport verb, or to the request of
\* a protected domain operation, makes the call fail with
\* APIClientAuthenticationException and with no other failure kind.
C2_Unauthorized ==
    \A i \in Https :
        (/\ last.op \in Verbs \cup (ProtectedOps \ {"fancy_auth_call"})
         /\ last.log[i].resp.code = UNAUTHORIZED)
        => last.exc = APIClientAuthenticationException

\* C3: a protected domain operation invoked with no access token and with a
\* stored email issues exactly one POST to the authentication endpoint,
\* before any request of its own, and issues its own request only if that
\* authentication succeeded.
C3_OneAuthentication ==
    (/\ last.op \in ProtectedOps
     /\ last.pre.access_token = None
     /\ last.pre.email # None)
    => /\ Cardinality(AuthPosts) = 1
       /\ \A i \in AuthPosts, j \in Https : i <= j
       /\ Https \ AuthPosts # {} =>
             /\ \A i \in AuthPosts : last.log[i].resp.code \in {OK, CREATED}
             /\ access_token # None
             /\ user # None

\* C4: a protected domain operation invoked with no access token and no
\* stored email fails with APIClientLoggedOutException, nothing has been
\* sent to the network (no authentication call, no endpoint call, no
\* probe), and the status and the credentials are unchanged.
C4_LoggedOutBeforeAnyRequest ==
    (/\ last.op \in ProtectedOps
     /\ last.pre.access_token = None
     /\ last.pre.email = None)
    => /\ last.exc = APIClientLoggedOutException
       /\ last.log = <<>>
       /\ status = last.pre.status
       /\ CredentialsKept

C4_Witness ==
    /\ last.op = "deleteModel"
    /\ last.pre.access_token = None
    /\ last.pre.email = None
    /\ last.pre.status = DISCONNECTED
    /\ last.exc = APIClientLoggedOutException

\* C5: in every reachable state CONNECTED implies that an access token and
\* a user record are held, and LOGGED_OUT implies that no token is held.
C5_StatusInvariant ==
    /\ status = CONNECTED => access_token # None /\ user # None
    /\ status = LOGGED_OUT => access_token = None

\* C6: getStatus makes one probe on every call and never returns CONNECTED
\* when that probe failed, with or without a response.
C6_GetStatusFresh ==
    last.op = "getStatus" =>
        /\ Cardinality(Probes) = 1
        /\ \A i \in Probes : last.log[i].res # "ok" => last.val # CONNECTED

\* C7: when the HTTP request of a transport verb raises a transport-level
\* error exactly one probe follows; the verb fails with
\* APIClientOfflineException if the status after that probe is DISCONNECTED
\* and with APIClientConnectionError otherwise, and returns no value.
C7_TransportFailure ==
    \A i \in Https :
        (last.op \in Verbs /\ last.log[i].resp = NoResponse) =>
            /\ Cardinality({j \in Probes : j > i}) = 1
            /\ \A j \in Probes :
                  j > i =>
                    /\ status = last.log[j].st
                    /\ last.exc = IF last.log[j].st = DISCONNECTED
                                   THEN APIClientOfflineException
                                   ELSE APIClientConnectionError
            /\ last.val = None

C7_Witness ==
    /\ last.op = "_request"
    /\ last.pre.status = DISCONNECTED
    /\ \E i \in Https : last.log[i].resp = NoResponse
    /\ Cardinality(Probes) = 2
    /\ last.exc = APIClientConnectionError

\* C8: fancy_auth_call never propagates an exception: it returns a pair
\* (value, result) whose value is None whenever the result is not OK, and
\* the pair is (None, DISCONNECTED) when the client was found offline.
C8_FancyAuthCallNeverRaises ==
    last.op = "fancy_auth_call" =>
        /\ last.exc = NoExc
        /\ last.result \in APICallResult
        /\ last.result # "APICallResult.OK" => last.val = None
        /\ (\E j \in Probes : /\ last.log[j].st = DISCONNECTED
                                /\ \A k \in Probes : k <= j)
             => /\ last.val = None
                /\ last.result = "APICallResult.DISCONNECTED"

\* C9: fancy_handle returns exactly one APICallResult for every outcome of
\* func and raises nothing: OK for a normal return, DISCONNECTED for
\* APIClientOfflineException, NOT_LOGGED_IN for APIClientLoggedOutException,
\* PERMISSION_ISSUE for APIClientAuthenticationException and GENERAL_ERROR
\* for every other exception.
C9_FancyHandleTable ==
    last.op = "fancy_handle" =>
        /\ last.exc = NoExc
        /\ last.result \in APICallResult
        /\ last.result =
              CASE last.arg = NoExc -> "APICallResult.OK"
                [] last.arg = APIClientOfflineException
                     -> "APICallResult.DISCONNECTED"
                [] last.arg = APIClientLoggedOutException
                     -> "APICallResult.NOT_LOGGED_IN"
                [] last.arg = APIClientAuthenticationException
                     -> "APICallResult.PERMISSION_ISSUE"
                [] OTHER -> "APICallResult.GENERAL_ERROR"

C9_Witness ==
    /\ last.op = "fancy_handle"
    /\ last.arg = APIClientAuthenticationException
    /\ last.result = "APICallResult.PERMISSION_ISSUE"

\* C10: get_file_version_details(public=True): when the public-info GET of
\* file/{file_id} is answered with 404 a second GET of the same endpoint
\* without publicInfo is issued, and if that one is answered with 404 too
\* APIClientNotFoundException propagates.
C10_PublicFallbackOn404 ==
    \A i \in Https :
        (/\ last.op = "get_file_version_details"
         /\ last.arg = "public=True"
         /\ last.log[i].endpoint = "file/1?publicInfo=true"
         /\ last.log[i].resp.code = NOT_FOUND)
        => /\ \E j \in Https : j > i /\ last.log[j].endpoint = "file/1"
           /\ \A j \in Https :
                 (j > i /\ last.log[j].resp.code = NOT_FOUND)
                 => last.exc = APIClientNotFoundException

\* The requests of the last call other than the gate's authentication
OwnRequests == Https \ AuthPosts

ServerRefreshed ==
    /\ wlast.op = "refreshModel"
    /\ workspacetype = "Ondsel"
    /\ wlast.listed

\* C12: after ServerWorkspaceModel.refreshModel completes, every openable
\* local file of the current directory whose name is the custFileName of no
\* remote model has an entry with status ToUpload in self.files.
C12_LocalOnlyToUpload ==
    (ServerRefreshed /\ wlast.exc = NoExc) =>
        \A i \in DOMAIN disk.entries :
            (/\ disk.entries[i].openable
             /\ ~disk.entries[i].isdir
             /\ \A j \in DOMAIN server :
                   server[j].custFileName # disk.entries[i].name)
            => \E k \in DOMAIN files :
                   /\ files[k].name = disk.entries[i].name
                   /\ files[k].status = "ToUpload"

\* C13: for every remote model whose expected local file exists the refresh
\* completes and the status of its entry is ToDownload when updatedAt is
\* greater than the local modification time, ToUpload when it is smaller
\* and Synced when they are equal.
C13_CompareTimestamps ==
    ServerRefreshed =>
        \A i \in DOMAIN server :
            isfile(disk, server[i].custFileName) =>
                /\ wlast.exc = NoExc
                /\ \E k \in DOMAIN files :
                      /\ files[k].id = server[i]._id
                      /\ files[k].status =
                            IF server[i].updatedAt
                                 > getmtime(disk, server[i].custFileName)
                            THEN "ToDownload"
                            ELSE IF server[i].updatedAt
                                      < getmtime(disk,
                                                 server[i].custFileName)
                            THEN "ToUpload"
                            ELSE "Synced"

\* C14: every remote model returned by getModels whose expected local path
\* is not an existing file has an entry with status ToDownload in the entry
\* list, whatever its updatedAt.
C14_MissingToDownload ==
    ServerRefreshed =>
        \A i \in DOMAIN server :
            ~isfile(disk, server[i].custFileName) =>
                \E k \in DOMAIN files :
                    /\ files[k].id = server[i]._id
                    /\ files[k].status = "ToDownload"

\* C15: after a refresh of a workspace model of either kind every
\* sub-folder of the current directory has an entry in the entry list and
\* every folder entry precedes every entry that is not a folder.
C15_FoldersFirst ==
    (/\ wlast.op = "refreshModel"
     /\ wlast.exc = NoExc
     /\ wlast.listed)
    => /\ \A i \in DOMAIN disk.entries :
             disk.entries[i].isdir =>
                 \E k \in DOMAIN files :
                     /\ files[k].name = disk.entries[i].name
                     /\ files[k].is_folder
       /\ \A j, k \in DOMAIN files :
             (files[j].is_folder /\ ~files[k].is_folder) => j < k

\* C16: a refreshModel that follows a refreshModel, with no change of the
\* local directory or of the server's list between the two, leaves the
\* entry list as the first one left it: same entries, statuses and order.
C16_RefreshIdempotent ==
    (/\ wlast.op = "refreshModel"
     /\ wlast.arg = None
     /\ wlast.listed
     /\ wlast.pre.refreshed)
    => files = wlast.pre.files

C16_Witness ==
    /\ ServerRefreshed
    /\ wlast.pre.refreshed
    /\ wlast.arg = None
    /\ wlast.exc = NoExc
    /\ Len(files) = 2
    /\ files[1].status = "Synced"
    /\ files[2].status = "ToDownload"
    /\ files = wlast.pre.files

\* Positions in the trace of the last call of the workspace model
WDeletes ==
    {i \in DOMAIN wlast.log : wlast.log[i].verb = "DELETE"}
WRemovals ==
    {i \in DOMAIN wlast.log : wlast.log[i].kind \in {"remove", "rmtree"}}
WResets == {i \in DOMAIN wlast.log : wlast.log[i].kind = "files"}

\* C17: ServerWorkspaceModel.deleteFile on an entry linked to a remote
\* record does the remote delete, then removes the local file or directory,
\* then refreshes; when the remote delete succeeds the local path no longer
\* exists and a refresh has run when deleteFile returns.
C17_DeleteOrder ==
    (/\ wlast.op = "deleteFile"
     /\ workspacetype = "Ondsel"
     /\ wlast.arg # 0)
    => /\ \A i \in WRemovals : \E j \in WDeletes : j < i
       /\ \A i \in WResets : \A j \in WDeletes \cup WRemovals : j < i
       /\ (\E j \in WDeletes :
               /\ wlast.log[j].resp.code = OK
               /\ wlast.log[j].resp.body # "notjson")
          => /\ ~isfile(disk, wlast.pre.files[wlast.arg].name)
             /\ ~isdir(disk, wlast.pre.files[wlast.arg].name)
             /\ WResets # {}
             /\ wlast.exc = NoExc

\* C18: an online probe sets the status to CONNECTED when it succeeds and
\* an access token is held, to LOGGED_OUT when it succeeds and no token is
\* held, and to DISCONNECTED when it raises a network-layer error without a
\* response; from every prior status and credential state, a token held
\* without a user record included.
C18_ProbeTransitions ==
    last.op \in Verbs \cup {"getStatus"} =>
        \A i \in Probes :
            /\ (last.log[i].res = "ok" /\ last.pre.access_token # None)
               => last.log[i].st = CONNECTED
            /\ (last.log[i].res = "ok" /\ last.pre.access_token = None)
               => last.log[i].st = LOGGED_OUT
            /\ last.log[i].res = "no_response"
               => last.log[i].st = DISCONNECTED

\* C19: in every reachable state DISCONNECTED implies that an access token
\* and a user record are held; a client without a token is never
\* DISCONNECTED, whatever probes or failed requests occur.
C19_DisconnectedImpliesLoggedIn ==
    status = DISCONNECTED => (access_token # None /\ user # None)

\* C20: for each of the four transport verbs and an answer whose status is
\* not 401: 200 or 201 returns the parsed JSON body, 404 raises
\* APIClientNotFoundException, and any other status raises
\* APIClientRequestException (with the code and the body's message field).
C20_StatusTable ==
    last.op \in Verbs =>
        \A i \in Https :
            /\ (/\ last.log[i].resp.code \in {OK, CREATED}
                /\ last.log[i].resp.body # "notjson")
               => /\ last.exc = NoExc
                  /\ last.val = last.log[i].resp.body
            /\ last.log[i].resp.code = NOT_FOUND
               => last.exc = APIClientNotFoundException
            /\ (/\ last.log[i].resp.code = 400
                /\ last.log[i].resp.body = "full")
               => last.exc = APIClientRequestException

\* Positions of the probes made before every HTTP request of the last call
ProbesBefore == {i \in Probes : \A j \in Https : i < j}

\* C21: one call of a transport verb issues its HTTP request at most once
\* and makes at most two probes: at most one before the request, and only
\* when the status was DISCONNECTED at the call, and at most one after it,
\* and only when the request raised a transport-level error; whatever the
\* outcome, no second request and no authentication call is made.
C21_SingleRequest ==
    last.op \in Verbs =>
        /\ Cardinality(Https) <= 1
        /\ Cardinality(Probes) <= 2
        /\ Cardinality(ProbesBefore) <= 1
        /\ ProbesBefore # {} => last.pre.status = DISCONNECTED
        /\ Cardinality(Probes \ ProbesBefore) <= 1
        /\ \A i \in Probes \ ProbesBefore :
              \E j \in Https : j < i /\ last.log[j].resp = NoResponse
        /\ AuthPosts = {}

C21_Witness ==
    /\ last.op = "_request"
    /\ last.pre.status = DISCONNECTED
    /\ Cardinality(Https) = 1
    /\ Cardinality(ProbesBefore) = 1
    /\ Cardinality(Probes \ ProbesBefore) = 1
    /\ last.exc = APIClientOfflineException

\* The exception classes of the client's taxonomy
Taxonomy ==
    {APIClientException, APIClientAuthenticationException,
     APIClientConnectionError, APIClientRequestException,
     APIClientLoggedOutException, APIClientOfflineException,
     APIClientNotFoundException, APIClientTierException}

\* C22: authenticate(), called with no token held, sends its request at most
\* once; when it returns, the token and the user record are set and the
\* status is CONNECTED; when it fails, it raises an error of the taxonomy,
\* the token and the user record are still unset and the status is not
\* CONNECTED.
C22_AuthenticateOutcomes ==
    (last.op = "authenticate" /\ last.pre.access_token = None) =>
        /\ Cardinality(Https) <= 1
        /\ Https \subseteq AuthPosts
        /\ last.exc = NoExc =>
              /\ access_token # None
              /\ user # None
              /\ status = CONNECTED
        /\ last.exc # NoExc =>
              /\ last.exc \in Taxonomy
              /\ access_token = None
              /\ user = None
              /\ status # CONNECTED

\* C23: logout(), called in any state, leaves the status LOGGED_OUT and the
\* email, the password, the access token and the user record cleared, so
\* that is_logged_in() and is_connected() are both false after it.
C23_Logout ==
    last.op = "logout" =>
        /\ status = LOGGED_OUT
        /\ email = None
        /\ password = None
        /\ access_token = None
        /\ user = None
        /\ ~is_logged_in(Self)
        /\ ~is_connected(Self)

C23_Witness ==
    /\ last.op = "logout"
    /\ last.pre.status = CONNECTED
    /\ last.pre.access_token # None
    /\ last.pre.user # None
    /\ status = LOGGED_OUT

\* The domain operations without the authRequired decorator
PublicOps ==
    {"get_public_shared_models", "getOndselOrganization",
     "get_search_results"}

\* C24: get_search_results, get_public_shared_models and
\* getOndselOrganization never send an authentication request and never
\* raise APIClientLoggedOutException, whatever credentials are held; every
\* other domain operation goes through the gate first: called without a
\* token, it sends no request of its own unless an authentication request
\* went before it and left a token.
C24_PublicOperations ==
    /\ last.op \in PublicOps =>
          /\ AuthPosts = {}
          /\ last.exc # APIClientLoggedOutException
          /\ Cardinality(Https) <= 1
    /\ (last.op \in ProtectedOps /\ last.pre.access_token = None) =>
          \A j \in OwnRequests :
              /\ \E i \in AuthPosts : i < j
              /\ access_token # None

C24_Witness ==
    /\ last.op = "get_search_results"
    /\ last.pre.access_token = None
    /\ last.pre.email = None
    /\ Cardinality(Https) = 1
    /\ last.exc = NoExc

\* The GETs of get_file_version_details in the last call's trace
PublicGets ==
    {i \in Https : last.log[i].endpoint = "file/1?publicInfo=true"}

PrivateGets == {i \in Https : last.log[i].endpoint = "file/1"}

\* How _request ends on the answer the i-th event of the trace received
Answered(i) ==
    _request_response(Self, [pre |-> "ok", raises |-> FALSE,
                             resp |-> last.log[i].resp, post |-> "ok"])

C26_DumpNeverThrows ==
    \A i \in Https :
        (/\ last.op \in Verbs
         /\ last.log[i].resp.code = 400
         /\ ~last.log[i].resp.ctype
         /\ last.log[i].resp.body = "full")
        => last.exc = APIClientRequestException

\* Positions of the setStatus calls in the last call's trace
StatusEvs == {i \in DOMAIN last.log : last.log[i].kind = "setStatus"}

\* A status that differs from the one before the call was set by setStatus.
ChangedBySetStatus ==
    (last.op \notin {"__init__", "none"} /\ status # last.pre.status) =>
        \E i \in StatusEvs : last.log[i].st = status

C28_ObserverFailureContained ==
    last.op \in {"getStatus", "logout", "authenticate"} \cup Verbs =>
        last.exc # RuntimeError

\* C29: every directory-changed event delivered to a workspace model runs
\* one complete refreshModel pass that rebuilds the whole entry list: the
\* pass the event starts (with the server's list in hand, for a Server
\* model) ends without an exception, sets self.files once, and leaves an
\* entry for every remote model (Server) or for every folder and openable
\* file of the directory (Local).
C29_EveryEventFullPass ==
    (/\ wlast.op = "refreshModel"
     /\ wlast.arg = "directoryChanged"
     /\ wlast.listed)
    => /\ wlast.exc = NoExc
       /\ Cardinality(WResets) = 1
       /\ workspacetype = "Ondsel" =>
             \A j \in DOMAIN server :
                 \E k \in DOMAIN files :
                     files[k].name = server[j].custFileName
       /\ workspacetype = "Local" => files = local_files(disk.entries)

\* C30: after a workspace model of either kind was constructed, or
\* refreshed, on a root path that did not exist, the root directory exists.
C30_RootCreated ==
    (wlast.op \in {"__init__", "refreshModel"} /\ wlast.exc = NoExc) =>
        disk.exists

OrgGets == {i \in Https : last.log[i].endpoint = "organizations/1"}
PrefsPatches == {i \in Https : last.log[i].verb = "PATCH"}
PrefsPosts == {i \in Https \ AuthPosts : last.log[i].verb = "POST"}

\* The organization was fetched by the i-th event, with or without a
\* preferencesId.
OrgFetched(i) ==
    last.log[i].resp.code = OK /\ last.log[i].resp.body # "notjson"

\* C32: uploadPrefs fetches the organization first; when the organization
\* has a preferencesId it sends exactly one PATCH to preferences/{id} and no
\* POST, when it has none exactly one POST to preferences with the
\* organizationId and no PATCH; when the organization was not fetched it
\* sends neither.
C32_UploadPrefsDispatch ==
    last.op = "uploadPrefs" =>
        /\ Cardinality(OrgGets) <= 1
        /\ \A k \in PrefsPatches \cup PrefsPosts :
              \E i \in OrgGets : i < k /\ OrgFetched(i)
        /\ (\A i \in OrgGets : ~OrgFetched(i)) =>
              PrefsPatches \cup PrefsPosts = {}
        /\ \A i \in OrgGets :
              OrgFetched(i) =>
                  IF PreferencesId(last.log[i].resp.body) # None
                  THEN /\ Cardinality(PrefsPatches) = 1
                       /\ PrefsPosts = {}
                       /\ \A k \in PrefsPatches :
                             last.log[k].endpoint = "preferences/1"
                  ELSE /\ Cardinality(PrefsPosts) = 1
                       /\ PrefsPatches = {}
                       /\ \A k \in PrefsPosts :
                             /\ last.log[k].endpoint = "preferences"
                             /\ last.log[k].data = "organizationId"

C32_Witness ==
    /\ last.op = "uploadPrefs"
    /\ Cardinality(OrgGets) = 1
    /\ Cardinality(PrefsPatches) = 1
    /\ PrefsPosts = {}
    /\ last.exc = NoExc

\* C33: the stored credentials (email, password, access token, user record)
\* change only at construction, in an authenticate that succeeds and in
\* logout: a probe, a call of a transport verb, whatever its outcome, and an
\* authenticate that fails leave the four as they were.
C33_CredentialsFrame ==
    (\/ last.op \in Verbs \cup {"getStatus"}
     \/ last.op = "authenticate" /\ last.exc # NoExc)
    => CredentialsKept

\* C34: once logout() has been called on a client, every later call of a
\* protected domain operation fails with APIClientLoggedOutException
\* without sending anything, and the status is never CONNECTED again,
\* whatever domain operations and probes follow.
C34_LoggedOutForGood ==
    last.loggedOut =>
        /\ status # CONNECTED
        /\ ~is_logged_in(Self)
        /\ last.op \in ProtectedOps =>
              /\ last.exc = APIClientLoggedOutException
              /\ Https = {}

C34_Witness ==
    /\ last.loggedOut
    /\ last.op = "getModels"
    /\ last.pre.status = DISCONNECTED
    /\ last.exc = APIClientLoggedOutException

\* The gate of a protected operation called now lets it run without an
\* authenticate.
GateSkips == authRequired(Self, NoEnv) = Return(Self, None)

\* C35: in every reachable state the gate and the logged-in predicate
\* agree: a protected domain operation skips the authentication step
\* exactly when is_logged_in() is true, and is_connected() is true exactly
\* when is_logged_in() is true and the status is CONNECTED.
C35_GateAgreesWithLoggedIn ==
    /\ GateSkips <=> is_logged_in(Self)
    /\ is_connected(Self) <=> (is_logged_in(Self) /\ status = CONNECTED)

\* C36: in ServerWorkspaceModel.deleteFile, when deleteModel fails with an
\* error of the taxonomy, nothing is removed from the local directory and
\* self.files is as it was; whatever is removed locally is removed after a
\* DELETE of the linked record that the server answered with 200.
C36_NoLocalDeleteOnRemoteFailure ==
    (/\ wlast.op = "deleteFile"
     /\ workspacetype = "Ondsel"
     /\ wlast.arg # 0)
    => /\ wlast.exc \in Taxonomy =>
             /\ WRemovals = {}
             /\ WResets = {}
             /\ files = wlast.pre.files
       /\ \A i \in WRemovals :
             \E j \in WDeletes : j < i /\ wlast.log[j].resp.code = OK

C36_Witness ==
    /\ wlast.op = "deleteFile"
    /\ workspacetype = "Ondsel"
    /\ wlast.arg # 0
    /\ wlast.exc \in Taxonomy
    /\ \E j \in WDeletes : wlast.log[j].resp.code = UNAUTHORIZED
    /\ isfile(disk, files[wlast.arg].name)
    /\ files = wlast.pre.files

====
